---- MODULE Spec2Model ----
(***************************************************************************)
(* Scheduled-bell controller (AutoBellTSS.ino): the control loop, the      *)
(* clock read, the alarm table in the EEPROM, the next-bell search and     *)
(* the four-button editor.                                                 *)
(*                                                                         *)
(* One loop() iteration is four steps, in the order of the code: the       *)
(* clock section ("rtc"), the bell start scan ("start"), the bell stop     *)
(* test ("stop") and handleButtons ("buttons").  Local time (millis) is    *)
(* counted in whole seconds; the clock chip runs at the same rate.         *)
(***************************************************************************)
EXTENDS Integers, FiniteSets, Sequences, TLC

\* ---- scale of the model -------------------------------------------------
\* The day is scaled down: the code's 24 hours, 60 minutes, 60 seconds and
\* 30 alarm slots become the values below (the wrap tests of the code are
\* written against these names).
HoursPerDay == 2
MinutesPerHour == 2
SecondsPerMinute == 2
MAX_ALARMS == 2
\* longest in-range bell duration the editor may step to, in seconds
MaxDuration == 2
\* most invalid clock reads in a row
MaxInvalidRun == 1
\* most value-changing presses in one run: accepted UP and DOWN presses,
\* alarm saves and reset gestures (SET and a NEXT that only moves the field
\* are not counted)
MaxEdits == 1
\* the editor's default alarm hour (08:00 in the code), scaled with the day
DefaultAlarmHour == 1

\* ---- program constants --------------------------------------------------
DaysPerWeek == 7
MIN_BELL_DURATION == 1
MAX_BELL_DURATION == 99
MsPerSecond == 1000
IntBits == 16
LongBits == 32
\* setup's replacements for an out-of-range duration and weekend selector
DefaultDuration == 3
DefaultWeekend == 6
\* EEPROM.read returns a byte
MaxByte == 255
\* the init flag (0xAA) and the duration initializeEEPROM writes
InitFlag == 170
FirstBootDuration == 30

Slots == 0 .. (MAX_ALARMS - 1)
Hours == 0 .. (HoursPerDay - 1)
Minutes == 0 .. (MinutesPerHour - 1)
Seconds == 0 .. (SecondsPerMinute - 1)
Days == 1 .. DaysPerWeek
AlarmTime == [hour : Hours, minute : Minutes]
\* local time since bellStart is followed up to this many seconds
MaxElapsed == MaxDuration + 1

VARIABLES
  \* the clock chip (DS1302): day of week 0..6 and time of day
  rtc_dow, rtc_hour, rtc_minute, rtc_second,
  \* program globals
  hh, mm, ss, set_day,
  bell_duration, weekend,
  current_alarm, alarm_hour, alarm_minute, total_alarms,
  setMode, field,
  next_bell_hour, next_bell_minute, next_bell_found,
  rtc_valid,
  bellActive, lastBellMinute, alarms_triggered_today,
  \* millis() - bellStart and millis() - last_rtc_update, in seconds
  sinceBellStart, sinceRtcUpdate,
  \* outputs
  relay, led_bell,
  \* EEPROM: bell duration, weekend selector, alarm count, alarm region
  ee_duration, ee_weekend, ee_count, ee_alarms,
  \* position in loop()
  pc,
  \* history: sessions started per slot since the clock chip's day changed
  ringsToday,
  \* history: day (1..7) returned by the previous valid clock read, 0 if none
  lastReadDay,
  \* history: slots that matched the time in a start scan skipped because a
  \* session was active, during the minute the program currently shows
  missed,
  \* history: invalid clock reads in a row, up to now
  invalidRun,
  \* history: value-changing presses the operator has left
  edits,
  \* history: bell_duration when the active session started, 0 when idle
  startDuration,
  \* history: how many trigger flags the day-change reset of the latest
  \* clock section cleared, -1 when that section did no reset
  resetCleared,
  \* history: highest slot index saved since the table was last reset (or
  \* the last slot of the table setup found), -1 if none
  savedHigh,
  \* history: the bytes setup read from the EEPROM, before validation
  loaded,
  \* EEPROM: the init flag
  ee_flag,
  \* history: setup found the init flag absent or wrong
  firstBoot

rtcVars == <<rtc_dow, rtc_hour, rtc_minute, rtc_second>>
timeVars == <<hh, mm, ss, set_day, rtc_valid>>
configVars == <<bell_duration, weekend, ee_duration, ee_weekend>>
editorVars == <<current_alarm, alarm_hour, alarm_minute, setMode, field>>
tableVars == <<total_alarms, ee_count, ee_alarms>>
nextBellVars == <<next_bell_hour, next_bell_minute, next_bell_found>>
bellVars == <<bellActive, sinceBellStart, relay, led_bell>>
dailyVars == <<lastBellMinute, alarms_triggered_today>>
histVars == <<ringsToday, lastReadDay, missed, invalidRun, startDuration, resetCleared,
              savedHigh, loaded, ee_flag, firstBoot>>
edited == edits > 0 /\ edits' = edits - 1
vars == <<rtcVars, timeVars, configVars, editorVars, tableVars, nextBellVars,
          bellVars, dailyVars, sinceRtcUpdate, pc, histVars, edits>>

\* ---- pure functions -----------------------------------------------------

\* a policy where only the selected day is a weekend day
isWeekendSelectedDayOnly(day, wk) == day = wk

\* bool isWeekend(int day), with the global weekend as a parameter
isWeekend(day, wk) ==
  IF wk = 6 THEN (day = 6 \/ day = 7) ELSE day = wk

\* a read that ignores the count
readAlarmUnchecked(index, total, alarms) ==
  IF index < 0 \/ index >= MAX_ALARMS
    THEN [hour |-> 0, minute |-> 0]
    ELSE alarms[index]

\* void readAlarm(int index, int &hour, int &minute)
readAlarm(index, total, alarms) ==
  IF index < 0 \/ index >= total
    THEN [hour |-> 0, minute |-> 0]
    ELSE alarms[index]

\* the test without the lastBellMinute guard
AlarmMatchesAnyMinute(i, total, alarms, h, m, flags, lbm) ==
  LET a == readAlarm(i, total, alarms) IN
    /\ a.hour = h /\ a.minute = m
    /\ ~flags[i]

\* the test of the start scan for slot i
AlarmMatches(i, total, alarms, h, m, flags, lbm) ==
  LET a == readAlarm(i, total, alarms) IN
    /\ a.hour = h /\ a.minute = m
    /\ ~flags[i]
    /\ lbm # m

\* a scan that takes the highest matching index
LastMatch(total, alarms, h, m, flags, lbm) ==
  LET hits == {i \in Slots : i < total /\ AlarmMatches(i, total, alarms, h, m, flags, lbm)} IN
    IF hits = {} THEN -1 ELSE CHOOSE i \in hits : \A j \in hits : i >= j

\* the start scan: lowest matching index below total, or -1
FirstMatch(total, alarms, h, m, flags, lbm) ==
  LET hits == {i \in Slots : i < total /\ AlarmMatches(i, total, alarms, h, m, flags, lbm)} IN
    IF hits = {} THEN -1 ELSE CHOOSE i \in hits : \A j \in hits : i <= j

\* the guard without the weekend test
StartGuardAnyDay(active, day, wk) == ~active

\* the guard without the test for an active session
StartGuardWhileActive(active, day, wk) == ~isWeekend(day, wk)

\* the guard of the start scan
StartGuard(active, day, wk) ==
  ~active /\ ~isWeekend(day, wk)

\* findNextBell(): the new (found, hour, minute); hour and minute keep their
\* old values when nothing is found
NextBellCandidates(total, alarms, h, m, flags) ==
  {i \in Slots :
     /\ i < total
     /\ LET a == readAlarm(i, total, alarms) IN
          \/ a.hour > h
          \/ (a.hour = h /\ a.minute > m)
          \/ (a.hour = h /\ a.minute = m /\ ~flags[i])}

\* a search that takes the chronologically earliest candidate
findNextBellEarliest(day, wk, total, alarms, h, m, flags, oldHour, oldMinute) ==
  LET none == [found |-> FALSE, hour |-> oldHour, minute |-> oldMinute]
      c == NextBellCandidates(total, alarms, h, m, flags) IN
    IF isWeekend(day, wk) THEN none
    ELSE IF total = 0 THEN none
    ELSE IF c # {}
      THEN LET i == CHOOSE k \in c : \A j \in c :
                      alarms[k].hour * MinutesPerHour + alarms[k].minute
                        <= alarms[j].hour * MinutesPerHour + alarms[j].minute
               a == readAlarm(i, total, alarms) IN
             [found |-> TRUE, hour |-> a.hour, minute |-> a.minute]
      ELSE LET a == readAlarm(0, total, alarms) IN
             [found |-> TRUE, hour |-> a.hour, minute |-> a.minute]

\* a search without the fallback to slot 0
findNextBellNoFallback(day, wk, total, alarms, h, m, flags, oldHour, oldMinute) ==
  LET none == [found |-> FALSE, hour |-> oldHour, minute |-> oldMinute]
      c == NextBellCandidates(total, alarms, h, m, flags) IN
    IF isWeekend(day, wk) THEN none
    ELSE IF total = 0 THEN none
    ELSE IF c # {}
      THEN LET i == CHOOSE k \in c : \A j \in c : k <= j
               a == readAlarm(i, total, alarms) IN
             [found |-> TRUE, hour |-> a.hour, minute |-> a.minute]
      ELSE none

\* a search without the test for an empty table
findNextBellOnEmpty(day, wk, total, alarms, h, m, flags, oldHour, oldMinute) ==
  LET none == [found |-> FALSE, hour |-> oldHour, minute |-> oldMinute]
      c == NextBellCandidates(total, alarms, h, m, flags) IN
    IF isWeekend(day, wk) THEN none
    ELSE IF c # {}
      THEN LET i == CHOOSE k \in c : \A j \in c : k <= j
               a == readAlarm(i, total, alarms) IN
             [found |-> TRUE, hour |-> a.hour, minute |-> a.minute]
      ELSE LET a == readAlarm(0, total, alarms) IN
             [found |-> TRUE, hour |-> a.hour, minute |-> a.minute]

findNextBell(day, wk, total, alarms, h, m, flags, oldHour, oldMinute) ==
  LET none == [found |-> FALSE, hour |-> oldHour, minute |-> oldMinute]
      c == NextBellCandidates(total, alarms, h, m, flags) IN
    IF isWeekend(day, wk) THEN none
    ELSE IF total = 0 THEN none
    ELSE IF c # {}
      THEN LET i == CHOOSE k \in c : \A j \in c : k <= j
               a == readAlarm(i, total, alarms) IN
             [found |-> TRUE, hour |-> a.hour, minute |-> a.minute]
      ELSE LET a == readAlarm(0, total, alarms) IN
             [found |-> TRUE, hour |-> a.hour, minute |-> a.minute]

\* (unsigned long)(bell_duration * 1000): the product is an int.  When it
\* leaves the int range the behaviour is undefined: the build either wraps
\* it (two's complement, then sign-extended and converted to unsigned
\* long) or keeps the mathematical product.
\* An unsigned long is held as two 16-bit halves [hi, lo].
IntMax == 2 ^ (IntBits - 1) - 1
WrapInt(x) ==
  LET r == x % (2 ^ IntBits) IN IF r > IntMax THEN r - 2 ^ IntBits ELSE r
Half == 2 ^ (LongBits \div 2)
ToUnsignedLong(x) ==
  IF x >= 0
    THEN [hi |-> (x \div Half) % Half, lo |-> x % Half]
    ELSE LET y == -(x + 1) IN
           [hi |-> (Half - 1) - ((y \div Half) % Half), lo |-> (Half - 1) - (y % Half)]
ULongGeq(a, b) == a.hi > b.hi \/ (a.hi = b.hi /\ a.lo >= b.lo)
StopThresholds(d) ==
  LET p == d * MsPerSecond IN
    IF p <= IntMax THEN {ToUnsignedLong(p)}
    ELSE {ToUnsignedLong(WrapInt(p)), ToUnsignedLong(p)}

\* the least duration whose product with 1000 wraps to a positive int
\* (66: 66000 - 65536 = 464)
WrapDuration ==
  CHOOSE d \in MIN_BELL_DURATION .. MAX_BELL_DURATION :
    /\ d * MsPerSecond > IntMax /\ WrapInt(d * MsPerSecond) > 0
    /\ \A e \in MIN_BELL_DURATION .. (d - 1) :
         ~(e * MsPerSecond > IntMax /\ WrapInt(e * MsPerSecond) > 0)
\* the durations the model follows: the short ones, and two whose stop
\* threshold leaves the int range (66 wraps positive, 99 wraps negative)
ModelledDurations ==
  (MIN_BELL_DURATION .. MaxDuration) \cup {WrapDuration, MAX_BELL_DURATION}

NoFlags == [i \in Slots |-> FALSE]
NoRings == [i \in Slots |-> 0]
ZeroAlarms == [i \in Slots |-> [hour |-> 0, minute |-> 0]]

\* ---- the clock chip ------------------------------------------------------

\* the chip's time dt seconds later (dt is 0 or 1)
RtcAfter(dt) ==
  LET s1 == rtc_second + dt
      m1 == rtc_minute + (IF s1 >= SecondsPerMinute THEN 1 ELSE 0)
      h1 == rtc_hour + (IF m1 >= MinutesPerHour THEN 1 ELSE 0)
      d1 == rtc_dow + (IF h1 >= HoursPerDay THEN 1 ELSE 0) IN
    [dow |-> d1 % DaysPerWeek, hour |-> h1 % HoursPerDay,
     minute |-> m1 % MinutesPerHour, second |-> s1 % SecondsPerMinute]

\* ---- the state after setup() --------------------------------------------

\* an alarm table as setup finds it: the slots of seq, zeros above them
At(h, m) == [hour |-> h, minute |-> m]
Table(seq) ==
  [total |-> Len(seq),
   alarms |-> [i \in Slots |-> IF i < Len(seq) THEN seq[i + 1] ELSE At(0, 0)]]
NoAlarms == Table(<<>>)
\* two slots with the same time
Duplicates == Table(<<At(0, 1), At(0, 1)>>)
\* the same minute in two hours, like 08:00 and 09:00
SameMinute == Table(<<At(0, 0), At(1, 0)>>)
\* two minutes in a row, like 08:00 and 08:01
Neighbours == Table(<<At(0, 0), At(0, 1)>>)
InitTables == {NoAlarms, Duplicates, SameMinute, Neighbours}
\* out of chronological order, like 09:30 and 09:00
Unordered == Table(<<At(1, 1), At(1, 0)>>)
SearchTables == InitTables \cup {Unordered}

\* the settings setup keeps of the bytes it read: out-of-range values are
\* replaced by the defaults
LoadDurationUnchecked(b) == b

LoadDuration(b) ==
  IF b < MIN_BELL_DURATION \/ b > MAX_BELL_DURATION THEN DefaultDuration ELSE b

\* a weekend byte kept as read
LoadWeekendUnchecked(b) == b

LoadWeekend(b) == IF b < 1 \/ b > 7 THEN DefaultWeekend ELSE b

LoadCount(b) == IF b > MAX_ALARMS THEN 0 ELSE b

\* void initializeEEPROM(): the EEPROM afterwards
initializeEEPROM(s) ==
  IF s.flag # InitFlag
    THEN [flag |-> InitFlag, duration |-> FirstBootDuration, weekend |-> 6,
          count |-> 0, alarms |-> ZeroAlarms]
    ELSE s

\* setup() done on an EEPROM holding one of stores (duration, weekend and
\* count bytes and the alarm region), its clock read valid or not as valids
\* allows; the chip shows any day and time
Setup(stores, valids) ==
  /\ rtc_dow \in 0 .. (DaysPerWeek - 1)
  /\ rtc_hour \in Hours /\ rtc_minute \in Minutes /\ rtc_second \in Seconds
  \* settings read from the EEPROM and validated; corrections are written back
  /\ \E found \in stores :
       LET s == initializeEEPROM(found) IN
         /\ firstBoot = (found.flag # InitFlag)
         /\ ee_flag = s.flag
         /\ loaded = [duration |-> s.duration, weekend |-> s.weekend, count |-> s.count]
         /\ bell_duration = LoadDuration(s.duration)
         /\ weekend = LoadWeekend(s.weekend)
         /\ total_alarms = LoadCount(s.count)
         /\ ee_alarms = s.alarms
  /\ ee_duration = bell_duration /\ ee_weekend = weekend /\ ee_count = total_alarms
  \* updateTimeFromRTC() in setup: the read is valid or not
  /\ rtc_valid \in valids
  /\ IF rtc_valid
       THEN hh = rtc_hour /\ mm = rtc_minute /\ ss = rtc_second /\ set_day = rtc_dow + 1
       ELSE hh = 0 /\ mm = 0 /\ ss = 0 /\ set_day = 0
  /\ lastReadDay = set_day
  /\ alarms_triggered_today = NoFlags /\ lastBellMinute = -1
  /\ current_alarm = 1 /\ alarm_hour = DefaultAlarmHour /\ alarm_minute = 0
  /\ setMode = 0 /\ field = 0
  \* findNextBell() in setup, from next_bell_hour = next_bell_minute = 0
  /\ LET nb == findNextBell(set_day, weekend, total_alarms, ee_alarms, hh, mm,
                            NoFlags, 0, 0) IN
       /\ next_bell_found = nb.found
       /\ next_bell_hour = nb.hour /\ next_bell_minute = nb.minute
  \* quickBellTest() leaves the relay off; last_rtc_update is still 0
  /\ bellActive = FALSE /\ sinceBellStart = 0 /\ relay = FALSE /\ led_bell = FALSE
  /\ sinceRtcUpdate = 1
  /\ pc = "rtc"
  /\ ringsToday = NoRings /\ missed = {}
  /\ invalidRun = IF rtc_valid THEN 0 ELSE 1
  /\ startDuration = 0 /\ resetCleared = -1
  /\ savedHigh = total_alarms - 1

\* setup() done, with a table of tables, a weekend selector of weekends and
\* a bell duration of durations in the EEPROM, all in range
Boot(tables, weekends, durations, valids) ==
  Setup({[flag |-> InitFlag, duration |-> d, weekend |-> w, count |-> t.total,
           alarms |-> t.alarms] :
           d \in durations, w \in weekends, t \in tables}, valids)

\* the full program starts with two alarms in a row, any weekend selector
\* and a two-second bell
Init == Boot({Neighbours}, Days, {MaxDuration}, {TRUE}) /\ edits = MaxEdits

\* ---- loop(): the clock section ------------------------------------------

\* the day test of updateTimeFromRTC
DayChanged(old_day, new_day) == old_day # new_day

\* a reset loop that starts at slot 1
FlagsAfterResetFromOne(flags) == [i \in Slots |-> IF i = 0 THEN flags[i] ELSE FALSE]

\* the trigger flags and lastBellMinute after the day-change reset
FlagsAfterReset(flags) == [i \in Slots |-> FALSE]
LastBellMinuteAfterReset(lbm) == -1

\* an invalid branch that zeroes the shown time
InvalidReadZeroing ==
  /\ invalidRun < MaxInvalidRun
  /\ rtc_valid' = FALSE
  /\ invalidRun' = invalidRun + 1
  /\ resetCleared' = -1
  /\ hh' = 0 /\ mm' = 0 /\ ss' = 0
  /\ UNCHANGED <<set_day, dailyVars, lastReadDay, missed>>

\* the branch of updateTimeFromRTC for a reading that is not valid
InvalidRead ==
  /\ invalidRun < MaxInvalidRun
  /\ rtc_valid' = FALSE
  /\ invalidRun' = invalidRun + 1
  /\ resetCleared' = -1
  /\ UNCHANGED <<hh, mm, ss, set_day, dailyVars, lastReadDay, missed>>

\* void updateTimeFromRTC(), reading now (valid or not)
updateTimeFromRTC(now, valid) ==
  IF valid
    THEN /\ ss' = now.second /\ mm' = now.minute /\ hh' = now.hour
         /\ set_day' = now.dow + 1
         /\ IF DayChanged(set_day, now.dow + 1)
              THEN /\ alarms_triggered_today' = FlagsAfterReset(alarms_triggered_today)
                   /\ lastBellMinute' = LastBellMinuteAfterReset(lastBellMinute)
                   /\ resetCleared' = Cardinality({i \in Slots : alarms_triggered_today[i]})
              ELSE /\ UNCHANGED dailyVars
                   /\ resetCleared' = -1
         /\ rtc_valid' = TRUE
         /\ lastReadDay' = now.dow + 1
         /\ invalidRun' = 0
         /\ missed' = IF <<now.hour, now.minute, now.dow + 1>> = <<hh, mm, set_day>>
                        THEN missed ELSE {}
    ELSE InvalidRead

\* current_millis = millis(); dt seconds have passed since the previous
\* iteration sampled it.  The clock is read once a second has passed since
\* the last read.  checkForAlarms() is empty.
LoopRtc ==
  /\ pc = "rtc"
  /\ \E dt \in 0 .. 1, valid \in BOOLEAN :
       /\ dt = 1 => (~bellActive \/ sinceBellStart < MaxElapsed)
       /\ LET now == RtcAfter(dt) IN
            /\ rtc_dow' = now.dow /\ rtc_hour' = now.hour
            /\ rtc_minute' = now.minute /\ rtc_second' = now.second
            /\ ringsToday' = IF now.dow # rtc_dow THEN NoRings ELSE ringsToday
            /\ sinceBellStart' = IF bellActive THEN sinceBellStart + dt ELSE sinceBellStart
            /\ IF sinceRtcUpdate + dt >= 1
                 THEN /\ sinceRtcUpdate' = 0
                      /\ updateTimeFromRTC(now, valid)
                 ELSE /\ valid
                      /\ sinceRtcUpdate' = sinceRtcUpdate + dt
                      /\ resetCleared' = -1
                      /\ UNCHANGED <<timeVars, dailyVars, lastReadDay, missed, invalidRun>>
  /\ pc' = "start"
  /\ UNCHANGED <<edits, startDuration, savedHigh, loaded, ee_flag, firstBoot>>
  /\ UNCHANGED <<configVars, editorVars, tableVars, nextBellVars,
                 bellActive, relay, led_bell>>

\* the clock section of an iteration that samples millis() one second later
\* when the session is already MaxElapsed seconds old: local time goes on,
\* and the session's age is counted as MaxElapsed from here on
LoopRtcLate ==
  /\ pc = "rtc"
  /\ bellActive /\ sinceBellStart = MaxElapsed
  /\ \E valid \in BOOLEAN :
       LET now == RtcAfter(1) IN
         /\ rtc_dow' = now.dow /\ rtc_hour' = now.hour
         /\ rtc_minute' = now.minute /\ rtc_second' = now.second
         /\ ringsToday' = IF now.dow # rtc_dow THEN NoRings ELSE ringsToday
         /\ sinceBellStart' = sinceBellStart
         /\ sinceRtcUpdate' = 0
         /\ updateTimeFromRTC(now, valid)
  /\ pc' = "start"
  /\ UNCHANGED <<edits, startDuration, savedHigh, loaded, ee_flag, firstBoot>>
  /\ UNCHANGED <<configVars, editorVars, tableVars, nextBellVars,
                 bellActive, relay, led_bell>>

\* ---- loop(): the start scan -----------------------------------------------

LoopStart ==
  /\ pc = "start"
  /\ LET i == FirstMatch(total_alarms, ee_alarms, hh, mm, alarms_triggered_today,
                         lastBellMinute) IN
       IF StartGuard(bellActive, set_day, weekend) /\ i # -1
         THEN LET flags == [alarms_triggered_today EXCEPT ![i] = TRUE]
                  nb == findNextBell(set_day, weekend, total_alarms, ee_alarms, hh, mm,
                                     flags, next_bell_hour, next_bell_minute) IN
                /\ alarms_triggered_today' = flags
                /\ lastBellMinute' = mm
                /\ relay' = TRUE /\ led_bell' = TRUE
                /\ sinceBellStart' = 0
                /\ bellActive' = TRUE
                /\ next_bell_found' = nb.found
                /\ next_bell_hour' = nb.hour /\ next_bell_minute' = nb.minute
                /\ ringsToday' = [ringsToday EXCEPT ![i] = IF @ < 2 THEN @ + 1 ELSE @]
                /\ startDuration' = bell_duration
                /\ UNCHANGED missed
         ELSE /\ UNCHANGED <<dailyVars, bellVars, nextBellVars, ringsToday, startDuration>>
              /\ missed' = IF bellActive
                             THEN missed \cup
                                  {j \in Slots : j < total_alarms
                                     /\ ee_alarms[j] = [hour |-> hh, minute |-> mm]
                                     /\ ~alarms_triggered_today[j]}
                             ELSE missed
  /\ pc' = "stop"
  /\ UNCHANGED <<edits, savedHigh, loaded, ee_flag, firstBoot>>
  /\ UNCHANGED <<rtcVars, timeVars, configVars, editorVars, tableVars,
                 sinceRtcUpdate, lastReadDay, invalidRun, resetCleared>>

\* ---- loop(): the stop test ------------------------------------------------

\* current_millis - bellStart >= (unsigned long)(bell_duration * 1000)
StopDue(elapsed, threshold) ==
  ULongGeq(ToUnsignedLong(elapsed * MsPerSecond), threshold)

\* a stop step that switches the relay off and leaves the indicator on
LoopStopKeepingIndicator ==
  /\ pc = "stop"
  /\ \E threshold \in StopThresholds(bell_duration) :
       IF bellActive /\ StopDue(sinceBellStart, threshold)
         THEN /\ relay' = FALSE /\ led_bell' = led_bell
              /\ bellActive' = FALSE
              /\ sinceBellStart' = 0
              /\ startDuration' = 0
         ELSE UNCHANGED <<bellVars, startDuration>>
  /\ pc' = "buttons"
  /\ UNCHANGED <<edits, savedHigh, loaded, ee_flag, firstBoot>>
  /\ UNCHANGED <<rtcVars, timeVars, configVars, editorVars, tableVars, nextBellVars,
                 dailyVars, sinceRtcUpdate, ringsToday, lastReadDay, missed,
                 invalidRun, resetCleared>>

LoopStop ==
  /\ pc = "stop"
  /\ \E threshold \in StopThresholds(bell_duration) :
       IF bellActive /\ StopDue(sinceBellStart, threshold)
         THEN /\ relay' = FALSE /\ led_bell' = FALSE
              /\ bellActive' = FALSE
              /\ sinceBellStart' = 0
              /\ startDuration' = 0
         ELSE UNCHANGED <<bellVars, startDuration>>
  /\ pc' = "buttons"
  /\ UNCHANGED <<edits, savedHigh, loaded, ee_flag, firstBoot>>
  /\ UNCHANGED <<rtcVars, timeVars, configVars, editorVars, tableVars, nextBellVars,
                 dailyVars, sinceRtcUpdate, ringsToday, lastReadDay, missed,
                 invalidRun, resetCleared>>

\* ---- the alarm table -------------------------------------------------------

\* a save that never changes the count
saveAlarmKeepingCount(index, hour, minute, total, alarms) ==
  IF index < 0 \/ index >= MAX_ALARMS
    THEN [total |-> total, alarms |-> alarms]
    ELSE [total |-> total,
          alarms |-> [alarms EXCEPT ![index] = [hour |-> hour, minute |-> minute]]]

\* void saveAlarm(int index, int hour, int minute): the count and the alarm
\* region afterwards
saveAlarm(index, hour, minute, total, alarms) ==
  IF index < 0 \/ index >= MAX_ALARMS
    THEN [total |-> total, alarms |-> alarms]
    ELSE [total |-> IF index >= total THEN index + 1 ELSE total,
          alarms |-> [alarms EXCEPT ![index] = [hour |-> hour, minute |-> minute]]]

\* the edit buffer when the editor shows alarm number n: the stored slot,
\* or the default 08:00 beyond the count
EditBuffer(n, total, alarms) ==
  IF n <= total
    THEN readAlarm(n - 1, total, alarms)
    ELSE [hour |-> DefaultAlarmHour, minute |-> 0]

\* ---- handleButtons(): one accepted press per call --------------------------

\* a step that leaves the stored next bell as it was
KeepNextBell == UNCHANGED nextBellVars

\* next-bell recomputed on the state before the step
RecomputeNextBellBeforeStep ==
  LET nb == findNextBell(set_day, weekend, total_alarms, ee_alarms, hh, mm,
                         alarms_triggered_today, next_bell_hour, next_bell_minute) IN
    /\ next_bell_found' = nb.found
    /\ next_bell_hour' = nb.hour /\ next_bell_minute' = nb.minute

\* next-bell recomputed on the state after the step
RecomputeNextBell ==
  LET nb == findNextBell(set_day', weekend', total_alarms', ee_alarms', hh', mm',
                         alarms_triggered_today', next_bell_hour, next_bell_minute) IN
    /\ next_bell_found' = nb.found
    /\ next_bell_hour' = nb.hour /\ next_bell_minute' = nb.minute

\* no press accepted
HandleNone ==
  /\ pc = "buttons"
  /\ pc' = "rtc"
  /\ UNCHANGED edits
  /\ UNCHANGED <<rtcVars, timeVars, configVars, editorVars, tableVars, nextBellVars,
                 bellVars, dailyVars, sinceRtcUpdate, histVars>>

\* a SET press that keeps the editor on the slot it showed last
HandleSetKeepingSlot ==
  /\ pc = "buttons"
  /\ UNCHANGED edits
  /\ setMode' = (setMode + 1) % 5
  /\ field' = 0
  /\ UNCHANGED <<current_alarm, alarm_hour, alarm_minute>>
  /\ pc' = "rtc"
  /\ UNCHANGED <<rtcVars, timeVars, configVars, tableVars, nextBellVars,
                 bellVars, dailyVars, sinceRtcUpdate, histVars>>

\* SET: next mode
HandleSet ==
  /\ pc = "buttons"
  /\ UNCHANGED edits
  /\ setMode' = (setMode + 1) % 5
  /\ field' = 0
  /\ IF setMode' = 3
       THEN /\ current_alarm' = 1
            /\ IF total_alarms > 0
                 THEN LET a == readAlarm(0, total_alarms, ee_alarms) IN
                        alarm_hour' = a.hour /\ alarm_minute' = a.minute
                 ELSE alarm_hour' = DefaultAlarmHour /\ alarm_minute' = 0
       ELSE UNCHANGED <<current_alarm, alarm_hour, alarm_minute>>
  /\ pc' = "rtc"
  /\ UNCHANGED <<rtcVars, timeVars, configVars, tableVars, nextBellVars,
                 bellVars, dailyVars, sinceRtcUpdate, histVars>>

\* NEXT: next field; in the alarm mode, leaving the last field saves
HandleNext ==
  /\ pc = "buttons"
  /\ IF setMode = 3 /\ (field + 1) % 3 = 0 THEN edited ELSE UNCHANGED edits
  /\ setMode' = setMode
  /\ pc' = "rtc"
  /\ UNCHANGED <<rtcVars, timeVars, configVars, bellVars, dailyVars, sinceRtcUpdate,
                 ringsToday, lastReadDay, invalidRun, startDuration, resetCleared,
                 loaded, ee_flag, firstBoot>>
  /\ IF setMode = 1
       THEN /\ field' = (field + 1) % 2
            /\ UNCHANGED <<current_alarm, alarm_hour, alarm_minute, tableVars,
                           nextBellVars, missed, savedHigh>>
     ELSE IF setMode = 3 /\ (field + 1) % 3 # 0
       THEN /\ field' = (field + 1) % 3
            /\ UNCHANGED <<current_alarm, alarm_hour, alarm_minute, tableVars,
                           nextBellVars, missed, savedHigh>>
     ELSE IF setMode = 3
       THEN LET saved == saveAlarm(current_alarm - 1, alarm_hour, alarm_minute,
                                   total_alarms, ee_alarms)
                n == IF current_alarm + 1 > MAX_ALARMS THEN 1 ELSE current_alarm + 1
                total == IF n > saved.total THEN n ELSE saved.total
                a == EditBuffer(n, total, saved.alarms) IN
              /\ field' = 0
              /\ ee_alarms' = saved.alarms
              /\ current_alarm' = n
              /\ total_alarms' = total /\ ee_count' = total
              /\ alarm_hour' = a.hour /\ alarm_minute' = a.minute
              /\ missed' = missed \ {current_alarm - 1}
              /\ savedHigh' = IF current_alarm - 1 > savedHigh
                                THEN current_alarm - 1 ELSE savedHigh
              /\ RecomputeNextBell
       ELSE UNCHANGED <<current_alarm, alarm_hour, alarm_minute, field, tableVars,
                        nextBellVars, missed, savedHigh>>

\* setRTCTime(): the chip keeps its date and takes hh:mm:ss
setRTCTime ==
  /\ rtc_hour' = hh' /\ rtc_minute' = mm' /\ rtc_second' = ss'
  /\ rtc_dow' = rtc_dow

\* a step that does not wrap
StepNoWrap(value, dir, lo, hi) == value + dir

\* UP (dir = 1) and DOWN (dir = -1)
Step(value, dir, lo, hi) ==
  IF value + dir > hi THEN lo ELSE IF value + dir < lo THEN hi ELSE value + dir

HandleUpDown(dir) ==
  /\ pc = "buttons"
  /\ edited
  /\ pc' = "rtc"
  /\ UNCHANGED <<bellVars, dailyVars, sinceRtcUpdate, ringsToday, lastReadDay, invalidRun,
                 startDuration, resetCleared, savedHigh, loaded, ee_flag, firstBoot>>
  /\ \/ /\ setMode = 0
        /\ set_day' = (IF dir = 1
                         THEN (IF set_day + 1 > 7 THEN 1 ELSE set_day + 1)
                         ELSE (IF set_day - 1 < 1 THEN 7 ELSE set_day - 1))
        /\ missed' = {}
        /\ UNCHANGED <<rtcVars, hh, mm, ss, rtc_valid, configVars, editorVars, tableVars>>
        /\ RecomputeNextBell
     \/ /\ setMode = 1
        /\ IF field = 0
             THEN hh' = Step(hh, dir, 0, HoursPerDay - 1) /\ mm' = mm
             ELSE mm' = Step(mm, dir, 0, MinutesPerHour - 1) /\ hh' = hh
        /\ ss' = ss
        /\ setRTCTime
        /\ missed' = {}
        /\ UNCHANGED <<set_day, rtc_valid, configVars, editorVars, tableVars>>
        /\ RecomputeNextBell
     \/ /\ setMode = 2
        /\ bell_duration' = Step(bell_duration, dir, MIN_BELL_DURATION, MAX_BELL_DURATION)
        /\ bell_duration' \in ModelledDurations
        /\ ee_duration' = bell_duration'
        /\ UNCHANGED <<rtcVars, timeVars, weekend, ee_weekend, editorVars, tableVars,
                       nextBellVars, missed>>
     \/ /\ setMode = 3
        /\ IF field = 0
             THEN LET n == Step(current_alarm, dir, 1, MAX_ALARMS)
                      a == EditBuffer(n, total_alarms, ee_alarms) IN
                    /\ current_alarm' = n
                    /\ alarm_hour' = a.hour /\ alarm_minute' = a.minute
             ELSE IF field = 1
               THEN /\ alarm_hour' = Step(alarm_hour, dir, 0, HoursPerDay - 1)
                    /\ UNCHANGED <<current_alarm, alarm_minute>>
             ELSE IF field = 2
               THEN /\ alarm_minute' = Step(alarm_minute, dir, 0, MinutesPerHour - 1)
                    /\ UNCHANGED <<current_alarm, alarm_hour>>
             ELSE UNCHANGED <<current_alarm, alarm_hour, alarm_minute>>
        /\ UNCHANGED <<rtcVars, timeVars, configVars, setMode, field, tableVars,
                       nextBellVars, missed>>
     \/ /\ setMode = 4
        /\ weekend' = Step(weekend, dir, 1, 7)
        /\ ee_weekend' = weekend'
        /\ UNCHANGED <<rtcVars, timeVars, bell_duration, ee_duration, editorVars,
                       tableVars, missed>>
        /\ RecomputeNextBell

HandleUp == HandleUpDown(1)
HandleDown == HandleUpDown(-1)

\* a reset that leaves the bell session alone
resetAllAlarmsKeepingSession ==
  /\ total_alarms' = 0 /\ ee_count' = 0
  /\ ee_alarms' = ZeroAlarms
  /\ alarms_triggered_today' = NoFlags
  /\ lastBellMinute' = -1
  /\ missed' = {} /\ savedHigh' = -1
  /\ UNCHANGED <<rtcVars, timeVars, configVars, editorVars, bellVars, startDuration>>
  /\ RecomputeNextBell

\* SET and NEXT held for more than five seconds: resetAllAlarms()
resetAllAlarms ==
  /\ total_alarms' = 0 /\ ee_count' = 0
  /\ ee_alarms' = ZeroAlarms
  /\ alarms_triggered_today' = NoFlags
  /\ bellActive' = FALSE
  /\ lastBellMinute' = -1
  /\ relay' = FALSE /\ led_bell' = FALSE
  /\ sinceBellStart' = 0
  /\ missed' = {} /\ startDuration' = 0 /\ savedHigh' = -1
  /\ UNCHANGED <<rtcVars, timeVars, configVars, editorVars>>
  /\ RecomputeNextBell

ResetGesture ==
  /\ pc = "buttons"
  /\ edited
  /\ resetAllAlarms
  /\ pc' = "rtc"
  /\ UNCHANGED <<sinceRtcUpdate, ringsToday, lastReadDay, invalidRun, resetCleared, loaded, ee_flag, firstBoot>>

\* ---- specifications -------------------------------------------------------

\* the whole program
Next ==
  \/ LoopRtc
  \/ LoopStart
  \/ LoopStop
  \/ HandleNone
  \/ HandleSet
  \/ HandleNext
  \/ HandleUp
  \/ HandleDown
  \/ ResetGesture

Spec == Init /\ [][Next]_vars

\* the controller left alone: no button is pressed; any of the tables, any
\* weekend selector, any modelled duration, the boot read valid or not
InitLoop == Boot(InitTables, Days, ModelledDurations, BOOLEAN) /\ edits = MaxEdits

NextLoop ==
  \/ LoopRtc
  \/ LoopStart
  \/ LoopStop
  \/ HandleNone

SpecLoop == InitLoop /\ [][NextLoop]_vars

\* the controller left alone with a clock chip that always answers
InitClockOk == Boot(InitTables, Days, ModelledDurations, {TRUE}) /\ edits = MaxEdits

NextClockOk ==
  \/ (LoopRtc /\ rtc_valid')
  \/ LoopStart
  \/ LoopStop
  \/ HandleNone

SpecClockOk == InitClockOk /\ [][NextClockOk]_vars

\* an operator who edits neither the alarm table nor the clock time: modes
\* are cycled, and UP and DOWN are pressed in the Normal, duration and
\* weekend modes only
InitDay ==
  Boot({Duplicates, Neighbours}, {6}, {MIN_BELL_DURATION}, {TRUE}) /\ edits = MaxEdits

NextDay ==
  \/ LoopRtc
  \/ LoopStart
  \/ LoopStop
  \/ HandleNone
  \/ HandleSet
  \/ (setMode \in {0, 2, 4} /\ HandleUp)
  \/ (setMode \in {0, 2, 4} /\ HandleDown)

SpecDay == InitDay /\ [][NextDay]_vars

\* an operator who leaves the alarm table alone: everything but the alarm
\* save and the reset gesture, on a table of two equal alarms
InitNoTable == Boot({Duplicates}, {6}, {MIN_BELL_DURATION}, BOOLEAN) /\ edits = MaxEdits

NextNoTable ==
  \/ LoopRtc
  \/ LoopStart
  \/ LoopStop
  \/ HandleNone
  \/ HandleSet
  \/ (~(setMode = 3 /\ field = 2) /\ HandleNext)
  \/ HandleUp
  \/ HandleDown

SpecNoTable == InitNoTable /\ [][NextNoTable]_vars

\* the next-bell search: any of the tables, any weekend selector, and an
\* operator who only presses UP and DOWN in the Normal mode
InitSearch ==
  Boot(SearchTables, Days, {MIN_BELL_DURATION}, {TRUE}) /\ edits = MaxEdits

NextSearch ==
  \/ (LoopRtc /\ rtc_valid')
  \/ LoopStart
  \/ LoopStop
  \/ HandleNone
  \/ (setMode = 0 /\ HandleUp)
  \/ (setMode = 0 /\ HandleDown)

SpecSearch == InitSearch /\ [][NextSearch]_vars

\* the alarm editor: an empty table, and an operator who may press twice
\* more than elsewhere, UP and DOWN in the alarm mode only
InitEditor ==
  Boot({NoAlarms}, {6}, {MIN_BELL_DURATION}, {TRUE}) /\ edits = MaxEdits + 1

NextEditor ==
  \/ (LoopRtc /\ rtc_valid')
  \/ LoopStart
  \/ LoopStop
  \/ HandleNone
  \/ HandleSet
  \/ HandleNext
  \/ (setMode = 3 /\ HandleUp)
  \/ (setMode = 3 /\ HandleDown)
  \/ ResetGesture

SpecEditor == InitEditor /\ [][NextEditor]_vars

\* setup on any EEPROM content, then the controller left alone: one of the
\* duration, weekend and count bytes takes every byte value while the other
\* two are both in range or both out of range; the alarm region holds two
\* non-zero alarms whatever the count says
Bytes == 0 .. MaxByte
Store(d, w, c) ==
  [flag |-> InitFlag, duration |-> d, weekend |-> w, count |-> c, alarms |-> Unordered.alarms]
LoadStores ==
  {Store(b, 6, 1) : b \in Bytes} \cup {Store(b, 0, MaxByte) : b \in Bytes}
    \cup {Store(1, b, 1) : b \in Bytes} \cup {Store(0, b, MaxByte) : b \in Bytes}
    \cup {Store(1, 6, b) : b \in Bytes} \cup {Store(0, 0, b) : b \in Bytes}

InitLoad == Setup(LoadStores, {TRUE}) /\ edits = MaxEdits

NextLoad ==
  \/ (LoopRtc /\ rtc_valid')
  \/ LoopStart
  \/ LoopStop
  \/ HandleNone

SpecLoad == InitLoad /\ [][NextLoad]_vars

\* setup on an EEPROM with any init flag byte, then the controller left
\* alone
FlagStores == {[Store(1, 7, 1) EXCEPT !.flag = f] : f \in Bytes}

InitFirstBoot == Setup(FlagStores, {TRUE}) /\ edits = MaxEdits

NextFirstBoot ==
  \/ (LoopRtc /\ rtc_valid')
  \/ LoopStart
  \/ LoopStop
  \/ HandleNone

SpecFirstBoot == InitFirstBoot /\ [][NextFirstBoot]_vars

\* the keys: every press but the reset gesture, with the weekend selector
\* and the bell duration at either end of their ranges
InitKeys ==
  Boot({Neighbours}, {1, 7}, {MIN_BELL_DURATION, MAX_BELL_DURATION}, {TRUE})
    /\ edits = MaxEdits

NextKeys ==
  \/ (LoopRtc /\ rtc_valid')
  \/ LoopStart
  \/ LoopStop
  \/ HandleNone
  \/ HandleSet
  \/ HandleNext
  \/ HandleUp
  \/ HandleDown

SpecKeys == InitKeys /\ [][NextKeys]_vars

\* the full program after setup on an EEPROM whose settings are at the
\* upper ends of their ranges, or all out of range, with a first clock read
\* that is valid or not
RangeStores == {Store(MAX_BELL_DURATION, DaysPerWeek, MAX_ALARMS), Store(0, 0, MaxByte)}

InitRanges == Setup(RangeStores, BOOLEAN) /\ edits = MaxEdits

SpecRanges == InitRanges /\ [][Next]_vars

\* the program, NEXT never pressed, under a loop that keeps iterating while
\* local time keeps advancing: some step is always taken, and again and
\* again an iteration samples millis() a second later than the one before;
\* the bell duration starts at either end of its range
InitLive ==
  Boot({Neighbours}, {DefaultWeekend}, {MIN_BELL_DURATION, MAX_BELL_DURATION}, {TRUE})
    /\ edits = MaxEdits

NextLive ==
  \/ LoopRtc
  \/ LoopRtcLate
  \/ LoopStart
  \/ LoopStop
  \/ HandleNone
  \/ HandleSet
  \/ HandleUp
  \/ HandleDown
  \/ ResetGesture

Tick == (LoopRtc \/ LoopRtcLate) /\ rtc_second' # rtc_second

SpecLive == InitLive /\ [][NextLive]_vars /\ WF_vars(NextLive) /\ SF_vars(Tick)

\* ---- claims -----------------------------------------------------------------

DistinctTimes ==
  \A i, j \in Slots :
    (i < total_alarms /\ j < total_alarms /\ i # j) => ee_alarms[i] # ee_alarms[j]

\* C1: on a non-weekend day with a valid clock, with pairwise distinct alarm
\* times and no edits, a start scan run while no session is active leaves
\* the trigger flag of every slot whose time is the current time set: the
\* slot starts a session in that minute, whatever rang earlier.
C1_EveryAlarmRings ==
  [][(/\ pc = "start" /\ rtc_valid /\ ~bellActive
      /\ ~isWeekend(set_day, weekend) /\ DistinctTimes)
     => \A i \in Slots :
          (i < total_alarms /\ ee_alarms[i] = At(hh, mm)) => alarms_triggered_today'[i]]_vars

\* C2: between two day changes of the clock chip no slot starts more than
\* one session, under presses that edit neither the table nor the time.
C2_NoSecondRing == \A i \in Slots : ringsToday[i] <= 1

\* C3: a session never starts while isWeekend(set_day) holds, and a day
\* change read on a weekend day still clears the flags and lastBellMinute.
C3_WeekendSuppression ==
  [][/\ (~bellActive /\ bellActive') => ~isWeekend(set_day', weekend')
     /\ (pc = "rtc" /\ set_day' # set_day /\ isWeekend(set_day', weekend'))
          => (alarms_triggered_today' = NoFlags /\ lastBellMinute' = -1)]_vars

\* a matching, untriggered alarm was passed over on a weekend day
C3_Witness ==
  /\ pc = "stop" /\ ~bellActive /\ isWeekend(set_day, weekend)
  /\ \E i \in Slots :
       /\ i < total_alarms
       /\ AlarmMatches(i, total_alarms, ee_alarms, hh, mm, alarms_triggered_today,
                       lastBellMinute)

\* C4: right after a valid clock read whose day differs from set_day, every
\* trigger flag is false and lastBellMinute is -1.
C4_DayRolloverReset ==
  [][(pc = "rtc" /\ set_day' # set_day)
     => (/\ \A i \in Slots : ~alarms_triggered_today'[i]
         /\ lastBellMinute' = -1)]_vars

\* a reset has just cleared the flags of both alarms, on a weekend day
C4_Witness ==
  /\ pc = "start" /\ resetCleared = 2 /\ isWeekend(set_day, weekend)

\* C5: a clock section does the reset exactly when its read is valid and
\* returns a day other than the one the previous valid read returned.
C5_ResetOnClockDayChangeOnly ==
  [][pc = "rtc" => ((resetCleared' # -1) <=> (lastReadDay' # lastReadDay))]_vars

\* C6 as stated: a slot that matched while a session was active starts no
\* session later in that minute.
C6_MissedAlarmDropped ==
  [][(pc = "start" /\ ~bellActive /\ bellActive')
     => \A i \in missed : alarms_triggered_today'[i] = alarms_triggered_today[i]]_vars

\* C6 as amended: while a session is active the start scan starts nothing
\* and sets no flag (one session at a time, nothing queued); once it has
\* ended, a passed-over slot that is the first match of the scan on a
\* non-weekend day starts a session in that same minute.
C6_MissedAlarmRetried ==
  [][pc = "start"
     => /\ bellActive => (/\ bellActive' /\ sinceBellStart' = sinceBellStart
                          /\ UNCHANGED <<dailyVars, ringsToday>>)
        /\ LET i == FirstMatch(total_alarms, ee_alarms, hh, mm,
                               alarms_triggered_today, lastBellMinute) IN
             (~bellActive /\ ~isWeekend(set_day, weekend) /\ i \in missed)
               => (bellActive' /\ alarms_triggered_today'[i])]_vars

\* a passed-over slot has started its session in the minute it was passed over
C6_Witness ==
  /\ pc = "stop" /\ bellActive /\ sinceBellStart = 0
  /\ \E i \in missed : alarms_triggered_today[i] /\ ee_alarms[i] = At(hh, mm)

\* C7: with two slots of the same time and no table edit, slot 1 never
\* starts a session and its flag is never set.
C7_DuplicateNeverFires ==
  (total_alarms = 2 /\ ee_alarms[0] = ee_alarms[1])
    => (~alarms_triggered_today[1] /\ ringsToday[1] = 0)

\* slot 0 has rung, its session is over and the time still matches both
C7_Witness ==
  /\ total_alarms = 2 /\ ee_alarms[0] = ee_alarms[1]
  /\ pc = "stop" /\ ~bellActive /\ ~isWeekend(set_day, weekend)
  /\ alarms_triggered_today[0] /\ ee_alarms[1] = At(hh, mm)

\* C8: at the stop test an active session stays on while less than
\* bell_duration seconds have passed since its start, and goes off, relay
\* and indicator too, once bell_duration seconds have passed.
C8_SessionLength ==
  [][(pc = "stop" /\ bellActive)
     => IF sinceBellStart < bell_duration
          THEN bellActive' /\ relay'
          ELSE ~bellActive' /\ ~relay' /\ ~led_bell']_vars

\* C9: a session ends only once the duration configured at its start has
\* passed, or by the reset gesture.
C9_NoCancellation ==
  [][(bellActive /\ ~bellActive')
     => \/ pc = "stop" /\ sinceBellStart >= startDuration
        \/ pc = "buttons" /\ total_alarms' = 0 /\ alarms_triggered_today' = NoFlags]_vars

\* C10: while the last clock read is invalid no session starts and no day
\* reset is done, and a session ends only when the stop test is due.
C10_InvalidReadSuppresses ==
  [][/\ (pc = "start" /\ ~rtc_valid) => ~(~bellActive /\ bellActive')
     /\ (pc = "rtc" /\ ~rtc_valid') => UNCHANGED dailyVars
     /\ (pc = "stop" /\ ~rtc_valid /\ bellActive /\ ~bellActive')
          => \E threshold \in StopThresholds(bell_duration) :
               StopDue(sinceBellStart, threshold)]_vars

\* C11: a clock section whose read is invalid leaves the shown time and day,
\* the trigger flags, lastBellMinute, bellActive, the alarm table and the
\* configuration as they were; rtc_valid is false afterwards.
C11_InvalidReadFrame ==
  [][(pc = "rtc" /\ ~rtc_valid')
     => UNCHANGED <<hh, mm, ss, set_day, dailyVars, bellActive, relay, tableVars,
                    configVars, editorVars, nextBellVars>>]_vars

\* an invalid read has followed valid ones while a session was active, with
\* a flag set and the chip's time ahead of the shown time
C11_Witness ==
  /\ pc = "start" /\ ~rtc_valid /\ lastReadDay # 0 /\ bellActive
  /\ \E i \in Slots : alarms_triggered_today[i]
  /\ <<rtc_hour, rtc_minute, rtc_second>> # <<hh, mm, ss>>

\* C12: with selector 6 isWeekend is true exactly for days 6 and 7, with any
\* other selector exactly for the selected day; a session starts only on a
\* day that is not a weekend day, and the next-bell search run after a
\* manual day change finds a bell exactly when that same day is not a
\* weekend day and the table is not empty.
C12_WeekendPolicy ==
  [][/\ \A d \in Days :
          isWeekend(d, weekend) <=> (IF weekend = 6 THEN d \in {6, 7} ELSE d = weekend)
     /\ (pc = "start" /\ ~bellActive /\ bellActive')
          => (~isWeekend(set_day, weekend) /\ next_bell_found')
     /\ (pc = "buttons" /\ set_day' # set_day)
          => (next_bell_found' <=> (~isWeekend(set_day', weekend') /\ total_alarms' > 0))]_vars

\* with selector 6, a manual day change to Saturday has left no next bell
\* although the table is not empty
C12_Witness ==
  /\ pc = "rtc" /\ edits < MaxEdits /\ weekend = 6 /\ set_day = 7
  /\ total_alarms > 0 /\ ~next_bell_found /\ ~bellActive

\* the step ran findNextBell: a session started, or the day was changed by
\* a press in the Normal mode
SearchRan ==
  \/ pc = "start" /\ ~bellActive /\ bellActive'
  \/ pc = "buttons" /\ set_day' # set_day

\* slot i is later than the shown time, or equal to it and untriggered, in
\* the state after the step
Qualifies(i) ==
  /\ i < total_alarms'
  /\ LET a == ee_alarms'[i] IN
       \/ a.hour > hh'
       \/ a.hour = hh' /\ a.minute > mm'
       \/ a.hour = hh' /\ a.minute = mm' /\ ~alarms_triggered_today'[i]

\* C13: on a non-weekend day with a non-empty table, when some slot is
\* later than the shown time or equal to it and untriggered, the search
\* stores the time of the lowest-index such slot.
C13_TableOrder ==
  [][(SearchRan /\ ~isWeekend(set_day', weekend') /\ total_alarms' > 0)
     => \A i \in Slots :
          (Qualifies(i) /\ \A j \in Slots : j < i => ~Qualifies(j))
            => /\ next_bell_found'
               /\ next_bell_hour' = ee_alarms'[i].hour
               /\ next_bell_minute' = ee_alarms'[i].minute]_vars

\* after a day change the search has stored slot 0 of the unordered table,
\* although slot 1 is earlier and also still to come
C13_Witness ==
  /\ pc = "rtc" /\ edits < MaxEdits /\ ~isWeekend(set_day, weekend)
  /\ total_alarms = 2 /\ ee_alarms = Unordered.alarms /\ hh = 0
  /\ next_bell_found /\ next_bell_hour = 1 /\ next_bell_minute = 1

\* C14: on a non-weekend day with a non-empty table in which no slot is
\* later than the shown time or equal to it and untriggered, the search
\* stores found = true and the time of slot 0.
C14_FallbackToSlotZero ==
  [][(SearchRan /\ ~isWeekend(set_day', weekend') /\ total_alarms' > 0
        /\ \A i \in Slots : ~Qualifies(i))
     => /\ next_bell_found'
        /\ next_bell_hour' = ee_alarms'[0].hour
        /\ next_bell_minute' = ee_alarms'[0].minute]_vars

\* the last alarm of the day has just started its session: every slot has
\* triggered, and the next bell is slot 0, which lies in the past
C14_Witness ==
  /\ pc = "stop" /\ bellActive /\ sinceBellStart = 0
  /\ total_alarms = 2 /\ alarms_triggered_today[0] /\ alarms_triggered_today[1]
  /\ ee_alarms[0] = At(0, 0) /\ hh = 0 /\ mm = 1
  /\ next_bell_found /\ next_bell_hour = 0 /\ next_bell_minute = 0

\* C15: the search stores found = false exactly when the day is a weekend
\* day or the table is empty.
C15_NoneOnWeekendOrEmpty ==
  [][SearchRan
     => (~next_bell_found' <=> (isWeekend(set_day', weekend') \/ total_alarms' = 0))]_vars

\* after a day change to a non-weekend day the search found nothing in an
\* empty table
C15_Witness ==
  /\ pc = "rtc" /\ edits < MaxEdits /\ ~isWeekend(set_day, weekend)
  /\ total_alarms = 0 /\ ~next_bell_found

\* C16: after a clock section that did the day-change reset, the stored
\* next bell is what findNextBell yields for the new day, the shown time,
\* the table and the cleared flags.
C16_NextBellAtRollover ==
  [][(pc = "rtc" /\ resetCleared' # -1)
     => LET nb == findNextBell(set_day', weekend', total_alarms', ee_alarms', hh', mm',
                               alarms_triggered_today', next_bell_hour, next_bell_minute) IN
          /\ next_bell_found' = nb.found
          /\ next_bell_hour' = nb.hour
          /\ next_bell_minute' = nb.minute]_vars

\* C17: total_alarms and the persisted count are the highest slot index
\* saved since the last table reset plus one, 0 if none was saved.
C17_CountIsHighestSaved ==
  total_alarms = savedHigh + 1 /\ ee_count = total_alarms

\* C18: saveAlarm on the slot and buffer of the editor stores the buffer at
\* that slot, leaves every other slot as it was, raises the count to
\* index + 1 when the index is not below it, so that a slot below the new
\* count that was never written reads back as (0,0); with an index outside
\* the table it changes nothing.  The commit step stores exactly that
\* region.
C18_SaveAlarm ==
  [][LET idx == current_alarm - 1
         s == saveAlarm(idx, alarm_hour, alarm_minute, total_alarms, ee_alarms) IN
       /\ s.alarms[idx] = At(alarm_hour, alarm_minute)
       /\ \A j \in Slots \ {idx} : s.alarms[j] = ee_alarms[j]
       /\ s.total = IF idx >= total_alarms THEN idx + 1 ELSE total_alarms
       /\ \A j \in Slots :
            (j < s.total /\ j # idx /\ j > savedHigh)
              => readAlarm(j, s.total, s.alarms) = At(0, 0)
       /\ \A bad \in {-1, MAX_ALARMS} :
            saveAlarm(bad, alarm_hour, alarm_minute, total_alarms, ee_alarms)
              = [total |-> total_alarms, alarms |-> ee_alarms]
       /\ (pc = "buttons" /\ setMode = 3 /\ setMode' = 3 /\ field = 2 /\ field' = 0)
            => (ee_alarms' = s.alarms /\ total_alarms' >= s.total
                /\ ee_count' = total_alarms')]_vars

\* slot 2 was saved into an empty table: the count is 2 and the skipped
\* slot 1, shown by the editor, reads back as 00:00
C18_Witness ==
  /\ pc = "rtc" /\ setMode = 3 /\ field = 0 /\ current_alarm = 1
  /\ savedHigh = 1 /\ total_alarms = 2 /\ ee_count = 2
  /\ ee_alarms[1] = At(DefaultAlarmHour, 0) /\ ee_alarms[0] = At(0, 0)
  /\ alarm_hour = 0 /\ alarm_minute = 0

\* C19: readAlarm returns (0,0) for a negative index and for every index
\* not below total_alarms, whatever the alarm region holds there, and the
\* stored pair for an index below total_alarms; a start scan that only
\* reads leaves the table, the flags and the next bell as they were.
C19_ReadAlarm ==
  [][/\ \A idx \in -1 .. MAX_ALARMS :
          readAlarm(idx, total_alarms, ee_alarms)
            = IF 0 <= idx /\ idx < total_alarms THEN ee_alarms[idx] ELSE At(0, 0)
     /\ (pc = "start" /\ bellActive' = bellActive)
          => UNCHANGED <<tableVars, dailyVars, nextBellVars>>]_vars

\* the start scan has run, on a day that is not a weekend day, at the time
\* held by the bytes of a slot above the count, and started nothing
C19_Witness ==
  /\ pc = "stop" /\ ~bellActive /\ ~isWeekend(set_day, weekend)
  /\ total_alarms = 1 /\ ee_alarms[1] # At(0, 0) /\ ee_alarms[1] = At(hh, mm)

\* C20: after setup the duration is in 1..99, the weekend selector in 1..7
\* and the count in 0..MAX_ALARMS; a byte in range is kept, a duration byte
\* out of range becomes 3, a weekend byte out of range 6, a count byte out
\* of range 0, and the EEPROM holds the values kept.
C20_LoadValidation ==
  /\ bell_duration \in MIN_BELL_DURATION .. MAX_BELL_DURATION
  /\ weekend \in 1 .. 7
  /\ total_alarms \in 0 .. MAX_ALARMS
  /\ bell_duration = IF loaded.duration \in MIN_BELL_DURATION .. MAX_BELL_DURATION
                        THEN loaded.duration ELSE 3
  /\ weekend = IF loaded.weekend \in 1 .. 7 THEN loaded.weekend ELSE 6
  /\ total_alarms = IF loaded.count \in 0 .. MAX_ALARMS THEN loaded.count ELSE 0
  /\ ee_duration = bell_duration /\ ee_weekend = weekend /\ ee_count = total_alarms

\* setup found a duration byte of 150, a weekend byte of 0 and a count
\* byte of 255, and the loop runs with 3, 6 and 0
C20_Witness ==
  /\ pc = "start"
  /\ loaded = [duration |-> 150, weekend |-> 0, count |-> MaxByte]
  /\ bell_duration = 3 /\ ee_duration = 3
  /\ weekend = 6 /\ ee_weekend = 6
  /\ total_alarms = 0 /\ ee_count = 0

\* C21: when setup finds the init flag absent or wrong, afterwards the
\* alarm region is all zero, the flag is set, and the configuration is the
\* defaults: duration 3, weekend selector 6, count 0.
C21_FirstBootDefaults ==
  firstBoot
    => /\ ee_alarms = ZeroAlarms /\ ee_flag = InitFlag
       /\ bell_duration = 3 /\ ee_duration = 3
       /\ weekend = 6 /\ ee_weekend = 6
       /\ total_alarms = 0 /\ ee_count = 0

\* C22: after the reset gesture the count and the persisted count are 0,
\* the alarm region is zero, every flag is false, lastBellMinute is -1, no
\* session is active, relay and indicator are off and no next bell is
\* found; duration, weekend selector, shown time and day, the chip and the
\* editor are as before.  No other step lowers total_alarms.
C22_FactoryReset ==
  [][/\ ResetGesture
          => /\ total_alarms' = 0 /\ ee_count' = 0
             /\ \A i \in Slots : ee_alarms'[i] = At(0, 0) /\ ~alarms_triggered_today'[i]
             /\ lastBellMinute' = -1
             /\ ~bellActive' /\ ~relay' /\ ~led_bell'
             /\ ~next_bell_found'
             /\ UNCHANGED <<configVars, timeVars, rtcVars, editorVars>>
     /\ total_alarms' < total_alarms => ResetGesture]_vars

\* a reset has cleared a table whose slot 0 had rung earlier that day
C22_Witness ==
  /\ pc = "rtc" /\ total_alarms = 0 /\ savedHigh = -1 /\ ringsToday[0] = 1
  /\ alarms_triggered_today = NoFlags /\ lastBellMinute = -1
  /\ ~bellActive /\ ~next_bell_found

\* the stored next bell after the step is findNextBell on the state after
\* the step
NextBellCurrent ==
  LET nb == findNextBell(set_day', weekend', total_alarms', ee_alarms', hh', mm',
                         alarms_triggered_today', next_bell_hour, next_bell_minute) IN
    /\ next_bell_found' = nb.found
    /\ next_bell_hour' = nb.hour
    /\ next_bell_minute' = nb.minute

\* C23: in the alarm mode the NEXT press that takes the field from 2 to 0
\* stores the edit buffer at slot current_alarm - 1 and nowhere else, moves
\* current_alarm to the next slot number, wrapping to 1 after the last,
\* and leaves the next bell equal to findNextBell on the updated table;
\* every other NEXT press and every SET press leave the table as it was.
C23_AlarmCommit ==
  [][/\ (HandleNext /\ setMode = 3 /\ field = 2)
          => /\ ee_alarms'[current_alarm - 1] = At(alarm_hour, alarm_minute)
             /\ \A j \in Slots \ {current_alarm - 1} : ee_alarms'[j] = ee_alarms[j]
             /\ current_alarm' = IF current_alarm = MAX_ALARMS THEN 1 ELSE current_alarm + 1
             /\ field' = 0
             /\ NextBellCurrent
     /\ (HandleNext /\ ~(setMode = 3 /\ field = 2)) => UNCHANGED tableVars
     /\ HandleSet => UNCHANGED tableVars]_vars

\* an edited buffer was committed to slot 1 of an empty table: the slot
\* holds it, the editor shows slot 2 and the next bell is the new alarm
C23_Witness ==
  /\ pc = "rtc" /\ setMode = 3 /\ field = 0 /\ current_alarm = 2
  /\ savedHigh = 0 /\ ee_alarms[0] = At(DefaultAlarmHour, 1)
  /\ ~isWeekend(set_day, weekend)
  /\ next_bell_found /\ next_bell_hour = DefaultAlarmHour /\ next_bell_minute = 1

\* C24: a SET press sets setMode to (setMode + 1) mod 5 and field to 0, so
\* five presses lead back to the same mode; the press that enters mode 3
\* sets current_alarm to 1 and the edit buffer to stored slot 0 when the
\* table is not empty, else to the default 08:00; any other press leaves
\* the editor's slot and buffer alone.
C24_ModeCycle ==
  [][HandleSet
     => LET inc(m) == (m + 1) % 5 IN
          /\ setMode' = inc(setMode) /\ field' = 0
          /\ inc(inc(inc(inc(setMode')))) = setMode
          /\ setMode' = 3
               => /\ current_alarm' = 1
                  /\ <<alarm_hour', alarm_minute'>>
                       = IF total_alarms > 0
                           THEN <<ee_alarms[0].hour, ee_alarms[0].minute>>
                           ELSE <<DefaultAlarmHour, 0>>
          /\ setMode' # 3 => UNCHANGED <<current_alarm, alarm_hour, alarm_minute>>]_vars

\* the alarm mode was entered again after an edited alarm was committed:
\* the editor is back on slot 1 and shows the stored alarm
C24_Witness ==
  /\ pc = "rtc" /\ setMode = 3 /\ field = 0 /\ current_alarm = 1
  /\ edits < MaxEdits /\ savedHigh = 0 /\ total_alarms > 0
  /\ ee_alarms[0] = At(DefaultAlarmHour, 1)
  /\ alarm_hour = DefaultAlarmHour /\ alarm_minute = 1

\* v one up or one down inside lo..hi, wrapping at the ends
Wrapped(v, dir, lo, hi) ==
  IF dir = 1 THEN (IF v = hi THEN lo ELSE v + 1) ELSE (IF v = lo THEN hi ELSE v - 1)

\* C25: an UP or DOWN press moves the field of the mode one up or down
\* inside its domain, wrapping at the ends (hour, minute, day 1..7,
\* duration 1..99, weekend 1..7, alarm hour, alarm minute, slot number); a
\* step one way and back restores the value; a minute step leaves the hour.
C25_WrapInDomain ==
  [][\A dir \in {1, -1} :
       HandleUpDown(dir)
         => /\ (setMode = 0 /\ set_day \in Days)
                 => /\ set_day' = Wrapped(set_day, dir, 1, 7) /\ set_day' \in Days
                    /\ Wrapped(set_day', -dir, 1, 7) = set_day
            /\ (setMode = 1 /\ field = 0)
                 => /\ hh' = Wrapped(hh, dir, 0, HoursPerDay - 1) /\ hh' \in Hours
                    /\ mm' = mm
                    /\ Step(hh', -dir, 0, HoursPerDay - 1) = hh
            /\ (setMode = 1 /\ field = 1)
                 => /\ mm' = Wrapped(mm, dir, 0, MinutesPerHour - 1) /\ mm' \in Minutes
                    /\ hh' = hh
                    /\ Step(mm', -dir, 0, MinutesPerHour - 1) = mm
            /\ setMode = 2
                 => /\ bell_duration'
                         = Wrapped(bell_duration, dir, MIN_BELL_DURATION, MAX_BELL_DURATION)
                    /\ bell_duration' \in MIN_BELL_DURATION .. MAX_BELL_DURATION
                    /\ Step(bell_duration', -dir, MIN_BELL_DURATION, MAX_BELL_DURATION)
                         = bell_duration
            /\ (setMode = 3 /\ field = 0)
                 => /\ current_alarm' = Wrapped(current_alarm, dir, 1, MAX_ALARMS)
                    /\ current_alarm' \in 1 .. MAX_ALARMS
                    /\ Step(current_alarm', -dir, 1, MAX_ALARMS) = current_alarm
            /\ (setMode = 3 /\ field = 1)
                 => /\ alarm_hour' = Wrapped(alarm_hour, dir, 0, HoursPerDay - 1)
                    /\ alarm_hour' \in Hours /\ alarm_minute' = alarm_minute
                    /\ Step(alarm_hour', -dir, 0, HoursPerDay - 1) = alarm_hour
            /\ (setMode = 3 /\ field = 2)
                 => /\ alarm_minute' = Wrapped(alarm_minute, dir, 0, MinutesPerHour - 1)
                    /\ alarm_minute' \in Minutes /\ alarm_hour' = alarm_hour
                    /\ Step(alarm_minute', -dir, 0, MinutesPerHour - 1) = alarm_minute
            /\ setMode = 4
                 => /\ weekend' = Wrapped(weekend, dir, 1, 7) /\ weekend' \in 1 .. 7
                    /\ Step(weekend', -dir, 1, 7) = weekend]_vars

\* DOWN in the duration mode has wrapped the shortest duration to the
\* longest, and the EEPROM holds it
C25_Witness ==
  /\ pc = "rtc" /\ setMode = 2 /\ edits < MaxEdits
  /\ loaded.duration = MIN_BELL_DURATION
  /\ bell_duration = MAX_BELL_DURATION /\ ee_duration = MAX_BELL_DURATION

\* C26: after an UP or DOWN press in the Normal, time and weekend modes and
\* after an alarm commit the stored next bell is findNextBell on the state
\* after the press; a press in the duration mode leaves the next bell.
C26_EditsKeepNextBell ==
  [][/\ \A dir \in {1, -1} :
          HandleUpDown(dir)
            => /\ setMode \in {0, 1, 4} => NextBellCurrent
               /\ setMode = 2 => UNCHANGED nextBellVars
     /\ (HandleNext /\ setMode = 3 /\ field = 2) => NextBellCurrent]_vars

\* on a Saturday the weekend selector was stepped from 7 to 1, and a next
\* bell is found
C26_Witness ==
  /\ pc = "rtc" /\ setMode = 4 /\ edits < MaxEdits
  /\ loaded.weekend = 7 /\ weekend = 1 /\ ee_weekend = 1 /\ set_day = 7
  /\ next_bell_found

\* C27: with no session active on a day that is not a weekend day, the
\* start scan fires the lowest-index slot below total_alarms whose time is
\* the shown time, whose flag is false, with mm different from
\* lastBellMinute: it sets that flag and no other, sets lastBellMinute to
\* mm, starts the session with relay and indicator on and recomputes the
\* next bell; one session starts at most, and none when no slot matches.
C27_TriggerStep ==
  [][(pc = "start" /\ ~bellActive /\ ~isWeekend(set_day, weekend))
     => LET hits == {i \in Slots : /\ i < total_alarms
                                    /\ ee_alarms[i] = At(hh, mm)
                                    /\ ~alarms_triggered_today[i]
                                    /\ lastBellMinute # mm} IN
          IF hits = {}
            THEN UNCHANGED <<dailyVars, bellVars, nextBellVars, ringsToday>>
            ELSE \E i \in hits :
                   /\ \A j \in hits : i <= j
                   /\ alarms_triggered_today' = [alarms_triggered_today EXCEPT ![i] = TRUE]
                   /\ lastBellMinute' = mm
                   /\ bellActive' /\ relay' /\ led_bell' /\ sinceBellStart' = 0
                   /\ NextBellCurrent
                   /\ \A j \in Slots \ {i} : ringsToday'[j] = ringsToday[j]]_vars

\* of two slots with the shown time, slot 0 has just started the session
\* and slot 1 is untouched
C27_Witness ==
  /\ pc = "stop" /\ bellActive /\ sinceBellStart = 0
  /\ total_alarms = 2 /\ ee_alarms[0] = At(hh, mm) /\ ee_alarms[1] = At(hh, mm)
  /\ alarms_triggered_today[0] /\ ~alarms_triggered_today[1]
  /\ lastBellMinute = mm /\ ringsToday[1] = 0

\* C28: for every configured bell_duration in 1..99, the value the stop
\* test compares the elapsed milliseconds against, the int product
\* bell_duration * 1000 converted to unsigned long, equals
\* bell_duration x 1000.
C28_StopThreshold ==
  (bell_duration \in MIN_BELL_DURATION .. MAX_BELL_DURATION)
    => \A threshold \in StopThresholds(bell_duration) :
         threshold = ToUnsignedLong(bell_duration * MsPerSecond)

\* C29: every bell session start is for a slot saved by a commit since the
\* last table reset: the slot the start scan fires is never above the
\* highest saved index.
C29_RingsOnlySaved ==
  [][(pc = "start" /\ ~bellActive /\ bellActive')
     => FirstMatch(total_alarms, ee_alarms, hh, mm, alarms_triggered_today,
                   lastBellMinute) <= savedHigh]_vars

\* C30: in every state after setup, under any ticks and presses:
\* 0 <= total_alarms <= MAX_ALARMS, 1 <= current_alarm <= MAX_ALARMS,
\* setMode in 0..4, field in 0..2 and in 0..1 while setMode = 1,
\* bell_duration in 1..99, weekend in 1..7, set_day in 1..7 once a clock
\* read was valid, and the persisted duration, weekend selector and alarm
\* count equal their in-memory values.
C30_Ranges ==
  /\ total_alarms \in 0 .. MAX_ALARMS
  /\ current_alarm \in 1 .. MAX_ALARMS
  /\ setMode \in 0 .. 4
  /\ field \in 0 .. 2
  /\ (setMode = 1 => field \in 0 .. 1)
  /\ bell_duration \in MIN_BELL_DURATION .. MAX_BELL_DURATION
  /\ weekend \in Days
  /\ (lastReadDay \in Days => set_day \in Days)
  /\ ee_duration = bell_duration /\ ee_weekend = weekend /\ ee_count = total_alarms

\* setup found every setting out of range and no valid time; since then a
\* clock read was valid, and a commit has filled the table to its last slot
C30_Witness ==
  /\ loaded = [duration |-> 0, weekend |-> 0, count |-> MaxByte]
  /\ lastReadDay \in Days /\ set_day \in Days
  /\ edits < MaxEdits
  /\ setMode = 3 /\ current_alarm = MAX_ALARMS /\ total_alarms = MAX_ALARMS

\* C31: at the end of every loop iteration the bell relay and the bell
\* indicator are on exactly when bellActive is true; after a stop step that
\* ends the session, and after resetAllAlarms, both are off.
C31_RelayFollowsSession ==
  [][/\ (pc' = "rtc" => (relay' = bellActive' /\ led_bell' = bellActive'))
     /\ ((pc = "stop" /\ bellActive /\ ~bellActive') => (~relay' /\ ~led_bell'))
     /\ (ResetGesture => (~bellActive' /\ ~relay' /\ ~led_bell'))]_vars

\* the reset gesture has ended the session of the never-saved slot 2 in
\* the iteration that started it: the clock still shows 00:00, relay and
\* indicator are off
C31_Witness ==
  /\ pc = "rtc" /\ savedHigh = -1 /\ total_alarms = 0
  /\ ringsToday[1] = 1 /\ hh = 0 /\ mm = 0 /\ sinceRtcUpdate = 0
  /\ edits = 0
  /\ ~bellActive /\ ~relay /\ ~led_bell

====
